---------------------------- MODULE Spec2Model ----------------------------
(***************************************************************************)
(* LinkMasterX (src/main.py): the move-link-revert engine.                 *)
(*                                                                         *)
(* A path is a sequence of names below the root; the empty sequence is the *)
(* empty string "" wherever a path is a user input (an entry field or a   *)
(* ledger field), and the root directory inside path resolution.  The      *)
(* filesystem is a function from the physical paths that exist to nodes.   *)
(* A node is [kind, id, target]: kind is "file", "dir", "filelink" or      *)
(* "dirlink" (the two forms mklink creates), id names the item's content   *)
(* (so that "the moved item" can be told from another item at the same     *)
(* path), target is a link's absolute target and <<>> otherwise.           *)
(***************************************************************************)
EXTENDS Integers, Sequences, FiniteSets, TLC

VARIABLES fs, historyFile, windows, platform, last, undo, clean, ops

vars == <<fs, historyFile, windows, platform, last, undo, clean, ops>>

(***************************************************************************)
(* Bounds of the model.                                                    *)
(***************************************************************************)
MaxWindows == 2
MaxLedger == 2
MaxHops == 3
MaxOps == 3

EmptyStr == <<>>
NoPath == <<"?">>

Node(k, i, t) == [kind |-> k, id |-> i, target |-> t]

IsLinkKind(k) == k \in {"filelink", "dirlink"}

Parent(p) == SubSeq(p, 1, Len(p) - 1)

LastName(p) == p[Len(p)]

PrefixOf(a, b) == Len(a) <= Len(b) /\ SubSeq(b, 1, Len(a)) = a

(***************************************************************************)
(* Path resolution as the operating system does it.  Real follows every    *)
(* link on the way and the final one (stat); LReal follows the links of    *)
(* the parent only (lstat).  fuel bounds a chain of links, as the OS does. *)
(***************************************************************************)
RECURSIVE Real(_, _, _)
Real(f, p, fuel) ==
    IF p = <<>> THEN <<>>
    ELSE LET par == Real(f, Parent(p), fuel)
         IN  IF par = NoPath THEN NoPath
             ELSE LET q == Append(par, LastName(p))
                  IN  IF q \notin DOMAIN f THEN NoPath
                      ELSE IF IsLinkKind(f[q].kind)
                           THEN IF fuel = 0 THEN NoPath
                                ELSE Real(f, f[q].target, fuel - 1)
                           ELSE q

IsDirAt(f, q) == q # NoPath /\ (q = <<>> \/ (q \in DOMAIN f /\ f[q].kind = "dir"))

LReal(f, p) ==
    IF p = <<>> THEN <<>>
    ELSE LET par == Real(f, Parent(p), MaxHops)
         IN  IF IsDirAt(f, par) THEN Append(par, LastName(p)) ELSE NoPath

exists(f, p) == p # EmptyStr /\ Real(f, p, MaxHops) # NoPath

lexists(f, p) == p # EmptyStr /\ LReal(f, p) \in DOMAIN f

isdir(f, p) == p # EmptyStr /\ IsDirAt(f, Real(f, p, MaxHops))

islink(f, p) == lexists(f, p) /\ IsLinkKind(f[LReal(f, p)].kind)

samefile(f, a, b) ==
    exists(f, a) /\ exists(f, b) /\ Real(f, a, MaxHops) = Real(f, b, MaxHops)

basename(p) == LastName(p)

join(d, n) == Append(d, n)

(***************************************************************************)
(* Tree surgery on the filesystem function.                                *)
(***************************************************************************)
Under(f, sp) == {p \in DOMAIN f : PrefixOf(sp, p)}

RemoveTree(f, sp) == [p \in DOMAIN f \ Under(f, sp) |-> f[p]]

Suffix(p, n) == SubSeq(p, n + 1, Len(p))

MoveTree(f, sp, dp) ==
    LET moved == Under(f, sp)
        kept  == DOMAIN f \ moved
        dest  == {dp \o Suffix(p, Len(sp)) : p \in moved}
    IN  [q \in kept \cup dest |->
            IF q \in dest THEN f[sp \o Suffix(q, Len(dp))] ELSE f[q]]

Put(f, q, n) == [p \in DOMAIN f \cup {q} |-> IF p = q THEN n ELSE f[p]]

Outcome(o, f) == [ok |-> o, fs |-> f]

(***************************************************************************)
(* os.makedirs(name, exist_ok=True): creates the missing directories of    *)
(* name; raises when name exists and is not a directory.                   *)
(***************************************************************************)
RECURSIVE makedirs(_, _)
makedirs(f, name) ==
    IF isdir(f, name) THEN Outcome(TRUE, f)
    ELSE IF name = EmptyStr \/ lexists(f, name) THEN Outcome(FALSE, f)
    ELSE LET head == IF Parent(name) # <<>> /\ ~exists(f, Parent(name))
                     THEN makedirs(f, Parent(name))
                     ELSE Outcome(TRUE, f)
             at   == LReal(head.fs, name)
         IN  IF ~head.ok \/ at = NoPath THEN Outcome(FALSE, head.fs)
             ELSE Outcome(TRUE, Put(head.fs, at, Node("dir", "new", <<>>)))

(***************************************************************************)
(* os.rename(src, dst) on one volume.  Windows refuses an existing dst;    *)
(* POSIX replaces a file or link by a non-directory and an empty directory *)
(* by a directory.  A directory is never renamed into itself.              *)
(***************************************************************************)
rename(f, src, dst, win) ==
    LET sp == LReal(f, src)
        dp == LReal(f, dst)
    IN  IF src = EmptyStr \/ dst = EmptyStr \/ ~lexists(f, src) \/ dp = NoPath
        THEN Outcome(FALSE, f)
        ELSE IF sp = dp THEN Outcome(TRUE, f)
        ELSE IF f[sp].kind = "dir" /\ PrefixOf(sp, dp) THEN Outcome(FALSE, f)
        ELSE IF dp \notin DOMAIN f THEN Outcome(TRUE, MoveTree(f, sp, dp))
        ELSE IF win THEN Outcome(FALSE, f)
        ELSE IF f[sp].kind = "dir"
             THEN IF f[dp].kind = "dir" /\ Under(f, dp) = {dp}
                  THEN Outcome(TRUE, MoveTree(RemoveTree(f, dp), sp, dp))
                  ELSE Outcome(FALSE, f)
        ELSE IF f[dp].kind = "dir" \/ PrefixOf(dp, sp) THEN Outcome(FALSE, f)
        ELSE Outcome(TRUE, MoveTree(RemoveTree(f, dp), sp, dp))

(***************************************************************************)
(* Where open(p, "wb") writes: through the links at p, creating the file   *)
(* when the last path of the chain is free and its parent is a directory.  *)
(***************************************************************************)
RECURSIVE WriteTarget(_, _, _)
WriteTarget(f, p, fuel) ==
    LET lp == LReal(f, p)
    IN  IF p = EmptyStr \/ lp = NoPath THEN NoPath
        ELSE IF lp \notin DOMAIN f THEN lp
        ELSE IF IsLinkKind(f[lp].kind)
             THEN IF fuel = 0 THEN NoPath ELSE WriteTarget(f, f[lp].target, fuel - 1)
        ELSE IF f[lp].kind = "dir" THEN NoPath
        ELSE lp

(***************************************************************************)
(* shutil.copy2(src, dst) followed by os.unlink(src): the fallback of      *)
(* shutil.move for a file whose rename failed.                             *)
(***************************************************************************)
copy2_unlink(f, src, dst) ==
    LET sp == Real(f, src, MaxHops)
        tp == WriteTarget(f, dst, MaxHops)
    IN  IF ~exists(f, src) \/ isdir(f, src) \/ samefile(f, src, dst) \/ tp = NoPath
        THEN Outcome(FALSE, f)
        ELSE Outcome(TRUE, RemoveTree(Put(f, tp, Node("file", f[sp].id, <<>>)),
                                      LReal(f, src)))

(***************************************************************************)
(* shutil.copytree(src, dst, symlinks=True) followed by shutil.rmtree(src):*)
(* the fallback for a directory.  copytree lists src, creates dst (which   *)
(* must not exist) and copies; a dst inside src is removed with src.       *)
(***************************************************************************)
copytree_rmtree(f, src, dst) ==
    LET sp == LReal(f, src)
        mk == IF lexists(f, dst) THEN Outcome(FALSE, f) ELSE makedirs(f, dst)
        dp == LReal(mk.fs, dst)
    IN  IF ~mk.ok \/ dp = NoPath THEN Outcome(FALSE, mk.fs)
        ELSE IF PrefixOf(sp, dp) THEN Outcome(TRUE, RemoveTree(f, sp))
        ELSE Outcome(TRUE, MoveTree(RemoveTree(mk.fs, dp), sp, dp))

(***************************************************************************)
(* os.symlink(linkto, dst) followed by os.unlink(src): the fallback for a  *)
(* source that is itself a link.                                           *)
(***************************************************************************)
symlink_unlink(f, src, dst) ==
    LET sp == LReal(f, src)
        dp == LReal(f, dst)
    IN  IF dp = NoPath \/ dp \in DOMAIN f THEN Outcome(FALSE, f)
        ELSE Outcome(TRUE, RemoveTree(Put(f, dp, f[sp]), sp))

(***************************************************************************)
(* shutil.move(src, dst) as current CPython has it.  An existing directory *)
(* dst receives src under src's base name; src being dst itself (and not a *)
(* link to it) is a bare rename.                                           *)
(***************************************************************************)
shutil_move(f, src, dst, win) ==
    IF isdir(f, dst) /\ samefile(f, src, dst) /\ ~islink(f, src)
    THEN rename(f, src, dst, win)
    ELSE LET real_dst == IF isdir(f, dst) THEN join(dst, basename(src)) ELSE dst
             rn == rename(f, src, real_dst, win)
         IN  IF isdir(f, dst) /\ exists(f, real_dst) THEN Outcome(FALSE, f)
             ELSE IF rn.ok THEN rn
             ELSE IF islink(f, src) THEN symlink_unlink(f, src, real_dst)
             ELSE IF isdir(f, src)
                  THEN IF PrefixOf(src, dst) THEN Outcome(FALSE, f)
                       ELSE copytree_rmtree(f, src, real_dst)
             ELSE copy2_unlink(f, src, real_dst)

(***************************************************************************)
(* The history ledger: HISTORY_FILE is absent or holds a JSON list.        *)
(***************************************************************************)
HISTORY_FILE(st, recs) == [state |-> st, records |-> recs]

Keys == <<"original_src", "final_dst", "symlink_path">>

(***************************************************************************)
(* json.dump writes a list of objects, each the key/value pairs of a       *)
(* record in the order the dict was built; json.load builds the dicts      *)
(* again, the value of a key being the one of its last pair.               *)
(***************************************************************************)
json_dump(history_list) ==
    [k \in 1..Len(history_list) |->
        [n \in 1..Len(Keys) |-> <<Keys[n], history_list[k][Keys[n]]>>]]

json_load(text) ==
    [k \in 1..Len(text) |->
        [key \in {text[k][n][1] : n \in 1..Len(text[k])} |->
            LET at == CHOOSE n \in 1..Len(text[k]) :
                        /\ text[k][n][1] = key
                        /\ \A m \in n + 1..Len(text[k]) : text[k][m][1] # key
            IN  text[k][at][2]]]

load_history_AnyContent(h) == json_load(h.records)

load_history(h) == IF h.state = "json" THEN json_load(h.records) ELSE <<>>

save_history(history_list) == HISTORY_FILE("json", json_dump(history_list))

Record(o, d, l) == [original_src |-> o, final_dst |-> d, symlink_path |-> l]

NoRecord == Record(EmptyStr, EmptyStr, EmptyStr)

(***************************************************************************)
(* move_item: the new location is dst_folder/basename(src) whatever        *)
(* shutil.move did with it.  ioFails is the operating system refusing the  *)
(* move (permissions, disk full).                                          *)
(***************************************************************************)
Moved(mv, new_location) ==
    [ok |-> mv.ok, fs |-> mv.fs, new_location |-> new_location]

MoveInto(mk, src, new_location, plat, ioFails) ==
    IF ~mk.ok \/ ioFails THEN Moved(Outcome(FALSE, mk.fs), new_location)
    ELSE Moved(shutil_move(mk.fs, src, new_location, plat = "Windows"),
               new_location)

move_item(f, src, dst_folder, plat, ioFails) ==
    MoveInto(makedirs(f, dst_folder), src, join(dst_folder, basename(src)),
             plat, ioFails)

(***************************************************************************)
(* create_symlink(src, dst): the link is made at src and points at dst.    *)
(* mklinkFails is mklink returning non-zero for a reason of the host.      *)
(***************************************************************************)
create_symlink_ExistsFirst(f, src, dst, plat, mklinkFails) ==
    LET at == LReal(f, src)
        k  == IF isdir(f, dst) THEN "dirlink" ELSE "filelink"
    IN  IF exists(f, src)
        THEN [ok |-> FALSE, err |-> "FileExistsError", fs |-> f]
        ELSE IF plat # "Windows"
        THEN [ok |-> FALSE, err |-> "NotImplementedError", fs |-> f]
        ELSE IF mklinkFails \/ at = NoPath \/ at \in DOMAIN f
        THEN [ok |-> FALSE, err |-> "CalledProcessError", fs |-> f]
        ELSE [ok |-> TRUE, err |-> "", fs |-> Put(f, at, Node(k, "link", dst))]

create_symlink(f, src, dst, plat, mklinkFails) ==
    LET at == LReal(f, src)
        k  == IF isdir(f, dst) THEN "dirlink" ELSE "filelink"
    IN  IF plat # "Windows"
        THEN [ok |-> FALSE, err |-> "NotImplementedError", fs |-> f]
        ELSE IF exists(f, src)
        THEN [ok |-> FALSE, err |-> "FileExistsError", fs |-> f]
        ELSE IF mklinkFails \/ at = NoPath \/ at \in DOMAIN f
        THEN [ok |-> FALSE, err |-> "CalledProcessError", fs |-> f]
        ELSE [ok |-> TRUE, err |-> "", fs |-> Put(f, at, Node(k, "link", dst))]

(***************************************************************************)
(* remove_symlink(symlink_path)                                            *)
(***************************************************************************)
remove_symlink_AnyEntry(f, symlink_path) ==
    IF exists(f, symlink_path)
    THEN Outcome(TRUE, RemoveTree(f, LReal(f, symlink_path)))
    ELSE Outcome(TRUE, f)

remove_symlink_MissingRaises(f, symlink_path) ==
    IF islink(f, symlink_path)
    THEN Outcome(TRUE, RemoveTree(f, LReal(f, symlink_path)))
    ELSE Outcome(FALSE, f)

remove_symlink(f, symlink_path) ==
    IF exists(f, symlink_path)
    THEN IF islink(f, symlink_path)
         THEN Outcome(TRUE, RemoveTree(f, LReal(f, symlink_path)))
         ELSE Outcome(FALSE, f)
    ELSE Outcome(TRUE, f)

(***************************************************************************)
(* validate_paths(src, dst_folder)                                         *)
(***************************************************************************)
validate_paths_NoFolderTypeCheck(f, src, dst_folder) ==
    IF src = EmptyStr \/ ~exists(f, src) THEN FALSE
    ELSE IF dst_folder = EmptyStr \/ ~exists(f, dst_folder) THEN FALSE
    ELSE TRUE

validate_paths(f, src, dst_folder) ==
    IF src = EmptyStr \/ ~exists(f, src) THEN FALSE
    ELSE IF dst_folder = EmptyStr \/ ~exists(f, dst_folder) THEN FALSE
    ELSE IF isdir(f, src) /\ ~isdir(f, dst_folder) THEN FALSE
    ELSE TRUE

(***************************************************************************)
(* SymlinkGUI.run_symlink_process as a function of the state it reads:     *)
(* the result, the filesystem and the history file it leaves.  io names    *)
(* the step the host makes fail, if any.                                   *)
(***************************************************************************)
CommitResult(r, err, steps, f, h, rec) ==
    [result |-> r, err |-> err, steps |-> steps, fs |-> f, hist |-> h, rec |-> rec]

run_symlink_process_RecordBeforeLink(f, h, src, dst_folder, plat, io) ==
    IF ~validate_paths(f, src, dst_folder)
    THEN CommitResult("invalid", "", <<"validate">>, f, h, NoRecord)
    ELSE LET mv == move_item(f, src, dst_folder, plat, io = "move")
             ln == create_symlink(mv.fs, src, mv.new_location, plat, io = "mklink")
             record == Record(src, mv.new_location, src)
             saved == save_history(Append(load_history(h), record))
         IN  IF ~mv.ok THEN CommitResult("moveFail", "Exception", <<"validate", "move">>, mv.fs, h, NoRecord)
             ELSE IF ~ln.ok THEN CommitResult("linkFail", ln.err, <<"validate", "move", "append", "link">>,
                                     ln.fs, saved, NoRecord)
             ELSE CommitResult("ok", "", <<"validate", "move", "append", "link">>,
                               ln.fs, saved, record)

run_symlink_process_NoReturn(f, h, src, dst_folder, plat, io) ==
    IF src = EmptyStr \/ dst_folder = EmptyStr
    THEN CommitResult("moveFail", "Exception", <<"validate", "move">>, f, h, NoRecord)
    ELSE LET mv == move_item(f, src, dst_folder, plat, io = "move")
             ln == create_symlink(mv.fs, src, mv.new_location, plat, io = "mklink")
             record == Record(src, mv.new_location, src)
         IN  IF ~mv.ok THEN CommitResult("moveFail", "Exception", <<"validate", "move">>, mv.fs, h, NoRecord)
             ELSE IF ~ln.ok THEN CommitResult("linkFail", ln.err, <<"validate", "move", "link">>,
                      ln.fs, h, NoRecord)
             ELSE CommitResult("ok", "", <<"validate", "move", "link", "append">>,
                               ln.fs,
                               save_history(Append(load_history(h), record)),
                               record)

(***************************************************************************)
(* Another process creating a file at p, where p is free and its parent is *)
(* a directory: what can happen to src between move_item and               *)
(* create_symlink.                                                         *)
(***************************************************************************)
ExternalCreate(f, p) ==
    IF LReal(f, p) = NoPath \/ lexists(f, p) THEN f
    ELSE Put(f, LReal(f, p), Node("file", "ext", <<>>))

AppendRecord(h, ln, record) ==
    IF ~ln.ok THEN CommitResult("linkFail", ln.err, <<"validate", "move", "link">>,
                      ln.fs, h, NoRecord)
    ELSE CommitResult("ok", "", <<"validate", "move", "link", "append">>, ln.fs,
                      save_history(Append(load_history(h), record)), record)

LinkMoved_KeyIsNewLocation(h, src, plat, io, mv) ==
    IF ~mv.ok
    THEN CommitResult("moveFail", "Exception", <<"validate", "move">>, mv.fs, h,
                      NoRecord)
    ELSE AppendRecord(h,
                      create_symlink(mv.fs, src, mv.new_location, plat,
                                     io = "mklink"),
                      Record(src, mv.new_location, mv.new_location))

LinkMoved(h, src, plat, io, mv) ==
    IF ~mv.ok THEN CommitResult("moveFail", "Exception", <<"validate", "move">>, mv.fs, h, NoRecord)
    ELSE AppendRecord(h,
                      create_symlink(IF io = "recreate"
                                     THEN ExternalCreate(mv.fs, src)
                                     ELSE mv.fs,
                                     src, mv.new_location, plat, io = "mklink"),
                      Record(src, mv.new_location, src))

run_symlink_process(f, h, src, dst_folder, plat, io) ==
    IF ~validate_paths(f, src, dst_folder)
    THEN CommitResult("invalid", "", <<"validate">>, f, h, NoRecord)
    ELSE LinkMoved(h, src, plat, io,
                   move_item(f, src, dst_folder, plat, io = "move"))

(***************************************************************************)
(* HistoryWindow: the list loaded when the window opened and the rows of   *)
(* its tree.                                                               *)
(***************************************************************************)
HistoryWindow(h) == [history |-> load_history(h), rows |-> load_history(h)]

WithoutKey(history, symlink_path) ==
    LET Keep(record) == record.symlink_path # symlink_path
    IN  SelectSeq(history, Keep)

DeleteRow(rows, j) == SubSeq(rows, 1, j - 1) \o SubSeq(rows, j + 1, Len(rows))

(***************************************************************************)
(* HistoryWindow.revert_selected on window w with row j focused (0: none). *)
(***************************************************************************)
RevertResult(r, steps, f, h, w, rec) ==
    [result |-> r, steps |-> steps, fs |-> f, hist |-> h, window |-> w, rec |-> rec]

RemoveRecord(h, w, j, values, mv) ==
    IF ~mv.ok THEN RevertResult("moveBackFail", <<"unlink", "moveBack">>, mv.fs, h, w, values)
    ELSE RevertResult("ok", <<"unlink", "moveBack", "remove">>, mv.fs,
                      save_history(WithoutKey(w.history, values.symlink_path)),
                      [history |-> WithoutKey(w.history, values.symlink_path),
                       rows |-> DeleteRow(w.rows, j)],
                      values)

MoveBack(h, w, j, values, plat, io, rm) ==
    IF ~rm.ok THEN RevertResult("unlinkFail", <<"unlink">>, rm.fs, h, w, values)
    ELSE RemoveRecord(h, w, j, values,
                      IF io = "move" THEN Outcome(FALSE, rm.fs)
                      ELSE shutil_move(rm.fs, values.final_dst,
                                       values.original_src, plat = "Windows"))

revert_selected(f, h, w, j, plat, io) ==
    IF j = 0 THEN RevertResult("noSelection", <<>>, f, h, w, NoRecord)
    ELSE MoveBack(h, w, j, w.rows[j], plat, io,
                  remove_symlink(f, w.rows[j].symlink_path))

(***************************************************************************)
(* The inputs a user can put in the two entry fields, and the reasons the  *)
(* host can make a step fail.                                              *)
(***************************************************************************)
SrcInputs == {EmptyStr, <<"a">>, <<"b">>, <<"D", "a">>}

DstInputs == {EmptyStr, <<"D">>, <<"E">>, <<"N">>, <<"a">>}

IoFailures == {"none", "move", "mklink", "recreate"}

Systems == {"Windows", "Linux"}

(***************************************************************************)
(* The filesystem the program is started on: a file a, a directory b with  *)
(* a file in it, two folders D and E, and in E a file named a and a        *)
(* directory named b.                                                      *)
(***************************************************************************)
InitFs ==
    (<<"a">> :> Node("file", "f1", <<>>)) @@
    (<<"b">> :> Node("dir", "d1", <<>>)) @@
    (<<"b", "c">> :> Node("file", "f3", <<>>)) @@
    (<<"D">> :> Node("dir", "dD", <<>>)) @@
    (<<"E">> :> Node("dir", "dE", <<>>)) @@
    (<<"E", "a">> :> Node("file", "f2", <<>>)) @@
    (<<"E", "b">> :> Node("dir", "d2", <<>>))

(***************************************************************************)
(* History variables.  last describes the handler that ran last: its       *)
(* inputs, its result, the record it wrote or reverted and the state it    *)
(* started from; revertOfLastCommit says that it reverted the record of    *)
(* the latest successful commit with no other commit or revert between,    *)
(* and base is then the state before that commit.  undo carries that state *)
(* from the commit to the revert.  clean says that no commit or revert has *)
(* failed so far; ops counts the commits and reverts.                      *)
(***************************************************************************)
State(f, h, w) == [fs |-> f, hist |-> h, windows |-> w]

NoState == State(<<>>, HISTORY_FILE("absent", <<>>), <<>>)

LastOp(op, r, src, dst, rec, inv, base) ==
    [op |-> op, result |-> r, src |-> src, dst |-> dst, rec |-> rec,
     pre |-> State(fs, historyFile, windows),
     revertOfLastCommit |-> inv, base |-> base, err |-> "", steps |-> <<>>,
     io |-> "none"]

NoUndo == [active |-> FALSE, rec |-> NoRecord, base |-> NoState]

(***************************************************************************)
(* symlink_history.json at start-up: not there, or left unparsable by an   *)
(* interrupted json.dump of a ledger.                                      *)
(***************************************************************************)
InitHistory ==
    {HISTORY_FILE("absent", <<>>),
     HISTORY_FILE("corrupt",
                  json_dump(<<Record(<<"a">>, <<"D", "a">>, <<"a">>)>>))}

Init ==
    /\ fs = InitFs
    /\ historyFile \in InitHistory
    /\ windows = <<>>
    /\ platform \in Systems
    /\ last = [op |-> "init", result |-> "ok", src |-> EmptyStr, dst |-> EmptyStr,
               rec |-> NoRecord, pre |-> NoState,
               revertOfLastCommit |-> FALSE, base |-> NoState,
               err |-> "", steps |-> <<>>, io |-> "none"]
    /\ undo = NoUndo
    /\ clean = TRUE
    /\ ops = 0

(***************************************************************************)
(* The "Move and Link" button: run_symlink_process.                        *)
(* The host can only disturb a step that runs, so io is "none" when the   *)
(* paths are rejected.                                                     *)
(***************************************************************************)
RunSymlinkProcess(src, dst_folder, io) ==
    /\ ops < MaxOps
    /\ Len(load_history(historyFile)) < MaxLedger
    /\ io # "none" => validate_paths(fs, src, dst_folder)
    /\ \E out \in {run_symlink_process(fs, historyFile, src, dst_folder,
                                       platform, io)} :
        /\ fs' = out.fs
        /\ historyFile' = out.hist
        /\ last' = [LastOp("commit", out.result, src, dst_folder, out.rec,
                           FALSE, NoState)
                       EXCEPT !.err = out.err, !.steps = out.steps, !.io = io]
        /\ undo' = IF out.result = "ok"
                   THEN [active |-> TRUE, rec |-> out.rec,
                         base |-> State(fs, historyFile, <<>>)]
                   ELSE NoUndo
        /\ clean' = (clean /\ out.result = "ok")
        /\ ops' = ops + 1
        /\ UNCHANGED <<windows, platform>>

(***************************************************************************)
(* The "History" menu entry: show_history opens a HistoryWindow.           *)
(***************************************************************************)
ShowHistory ==
    /\ Len(windows) < MaxWindows
    /\ windows' = Append(windows, HistoryWindow(historyFile))
    /\ last' = LastOp("open", "ok", EmptyStr, EmptyStr, NoRecord, FALSE, NoState)
    /\ UNCHANGED <<fs, historyFile, platform, undo, clean, ops>>

(***************************************************************************)
(* The "Close" button of window i: destroy.                                *)
(***************************************************************************)
CloseHistory(i) ==
    /\ windows' = SubSeq(windows, 1, i - 1) \o SubSeq(windows, i + 1, Len(windows))
    /\ last' = LastOp("close", "ok", EmptyStr, EmptyStr, NoRecord, FALSE, NoState)
    /\ UNCHANGED <<fs, historyFile, platform, undo, clean, ops>>

(***************************************************************************)
(* The "Revert Selected" button of window i with row j focused.            *)
(***************************************************************************)
RevertSelected(i, j, io) ==
    /\ ops < MaxOps
    /\ \E out \in {revert_selected(fs, historyFile, windows[i], j, platform, io)} :
        LET inv == out.result = "ok" /\ undo.active /\ undo.rec = out.rec
        IN
        /\ fs' = out.fs
        /\ historyFile' = out.hist
        /\ windows' = [windows EXCEPT ![i] = out.window]
        /\ last' = [LastOp("revert", out.result, EmptyStr, EmptyStr, out.rec,
                           inv, IF inv THEN undo.base ELSE NoState)
                       EXCEPT !.steps = out.steps, !.io = io]
        /\ undo' = NoUndo
        /\ clean' = (clean /\ out.result \in {"ok", "noSelection"})
        /\ ops' = ops + 1
        /\ UNCHANGED platform

Next ==
    \/ \E src \in SrcInputs, dst_folder \in DstInputs, io \in IoFailures :
          RunSymlinkProcess(src, dst_folder, io)
    \/ ShowHistory
    \/ \E i \in 1..Len(windows) : CloseHistory(i)
    \/ \E i \in 1..Len(windows) :
          \E j \in 0..Len(windows[i].rows), io \in {"none", "move"} :
             RevertSelected(i, j, io)

Spec == Init /\ [][Next]_vars

(***************************************************************************)
(* The claims, stated of the state a handler leaves (last says which one   *)
(* ran and from where).                                                    *)
(***************************************************************************)
NodeAt(f, p) == IF lexists(f, p) THEN f[LReal(f, p)] ELSE Node("none", "", <<>>)

Committed == last.op = "commit" /\ last.result = "ok"

Reverted == last.op = "revert" /\ last.result = "ok"

Ledger == load_history(historyFile)

(* C1: after every successful commit of (src, dstFolder), src is a symbolic
   link, the link's target is the moved item, located at
   dstFolder/basename(src), and the ledger holds exactly one new record,
   whose symlink_path is src; also when dstFolder already holds an entry
   named basename(src). *)
C1_CommitPostcondition ==
    Committed =>
        LET loc == join(last.dst, basename(last.src))
        IN  /\ islink(fs, last.src)
            /\ NodeAt(fs, last.src).target = loc
            /\ NodeAt(fs, loc) = NodeAt(last.pre.fs, last.src)
            /\ Ledger = Append(load_history(last.pre.hist), last.rec)
            /\ last.rec.symlink_path = last.src

(* C2: a successful revert of the record of a successful commit restores the
   state before the commit: original_src is the real item again, nothing is
   left at final_dst, the record is gone and the other records are as they
   were; revert(commit(src, dstFolder)) is the identity on filesystem and
   ledger. *)
C2_RevertInvertsCommit ==
    (Reverted /\ last.revertOfLastCommit) =>
        /\ NodeAt(fs, last.rec.original_src)
              = NodeAt(last.base.fs, last.rec.original_src)
        /\ ~islink(fs, last.rec.original_src)
        /\ ~lexists(fs, last.rec.final_dst)
        /\ fs = last.base.fs
        /\ Ledger = load_history(last.base.hist)

Consistent(f, record) ==
    /\ islink(f, record.original_src)
    /\ lexists(f, record.final_dst)
    /\ ~islink(f, record.final_dst)

(* C3: in every state reached by successfully completed commits and reverts
   only, every record of the persisted ledger has original_src a symbolic
   link and final_dst the real item, not a link. *)
C3_LedgerMatchesFilesystem ==
    clean => \A k \in 1..Len(Ledger) : Consistent(fs, Ledger[k])

(* C4: a successful revert of a record with key symlink_path rewrites the
   persisted ledger to the ledger as persisted at the moment of the revert
   minus the records with that key; records appended or removed since the
   history view was opened are neither lost nor resurrected. *)
C4_RevertReloadsLedger ==
    Reverted =>
        Ledger = WithoutKey(load_history(last.pre.hist), last.rec.symlink_path)

(* C5: a commit that fails at validation, at the move or at the link creation
   leaves the persisted ledger exactly as it was. *)
C5_FailedCommitKeepsLedger ==
    last.op = "commit" =>
        /\ last.result \in {"ok", "invalid", "moveFail", "linkFail"}
        /\ last.result # "ok" => historyFile = last.pre.hist

C5_Witness ==
    /\ last.op = "commit" /\ last.result = "linkFail"
    /\ fs # last.pre.fs
    /\ Ledger # <<>>

(* C6: a commit with a dstFolder that does not yet exist succeeds: the folder
   is created, the item is moved into it, the link is created at src and
   exactly one record is appended. *)
C6_CommitCreatesFolder ==
    (/\ last.op = "commit"
     /\ platform = "Windows"
     /\ exists(last.pre.fs, last.src) /\ ~islink(last.pre.fs, last.src)
     /\ last.dst # EmptyStr /\ ~lexists(last.pre.fs, last.dst)) =>
        /\ last.result = "ok"
        /\ isdir(fs, last.dst)
        /\ NodeAt(fs, join(last.dst, basename(last.src)))
              = NodeAt(last.pre.fs, last.src)
        /\ islink(fs, last.src)
        /\ Len(Ledger) = Len(load_history(last.pre.hist)) + 1

(* C7: when the link removal of a revert fails because symlink_path exists
   and is not a symbolic link, the revert aborts with nothing changed: the
   persisted ledger, the filesystem and the rows of the view are as before,
   so the revert can be tried again. *)
C7_NotALinkAbortsRevert ==
    last.op = "revert" =>
        LET p == last.rec.symlink_path
            notALink == exists(last.pre.fs, p) /\ ~islink(last.pre.fs, p)
        IN  /\ notALink <=> last.result = "unlinkFail"
            /\ notALink =>
                  /\ fs = last.pre.fs
                  /\ historyFile = last.pre.hist
                  /\ windows = last.pre.windows

C7_Witness ==
    /\ last.op = "revert" /\ last.result = "unlinkFail"
    /\ exists(fs, last.rec.symlink_path) /\ ~islink(fs, last.rec.symlink_path)

(* C8: when the move back of a revert fails after its link removal succeeded,
   there is no symbolic link at symlink_path, final_dst is as it was and the
   persisted ledger still holds what it held. *)
C8_FailedMoveBackState ==
    (last.op = "revert" /\ last.result = "moveBackFail") =>
        /\ ~islink(fs, last.rec.symlink_path)
        /\ NodeAt(fs, last.rec.final_dst) = NodeAt(last.pre.fs, last.rec.final_dst)
        /\ historyFile = last.pre.hist

(***************************************************************************)
(* The filesystem is new in the initial state and after an operation that  *)
(* changed it.  What a claim says of a function of the filesystem alone is *)
(* examined in these states: every filesystem reached is first met in one. *)
(***************************************************************************)
NewFs == last.op = "init" \/ fs # last.pre.fs

Rejected(f, src, dst_folder) ==
    \/ src = EmptyStr \/ Real(f, src, MaxHops) = NoPath
    \/ dst_folder = EmptyStr \/ Real(f, dst_folder, MaxHops) = NoPath
    \/ (isdir(f, src) /\ ~isdir(f, dst_folder))

(* C9: validate(src, dstFolder) is false exactly when src is empty or does
   not exist, or dstFolder is empty or does not exist, or src is a directory
   and dstFolder is not; it is true for every other pair, and a commit is
   rejected as invalid in exactly these cases. *)
C9_ValidateRejectsExactly ==
    /\ NewFs =>
          \A src \in SrcInputs, dst_folder \in DstInputs :
             validate_paths(fs, src, dst_folder) = ~Rejected(fs, src, dst_folder)
    /\ last.op = "commit" =>
          (last.result = "invalid") = Rejected(last.pre.fs, last.src, last.dst)

C9_Witness ==
    /\ last.op = "commit" /\ last.result = "invalid"
    /\ isdir(fs, last.src) /\ exists(fs, last.dst) /\ ~isdir(fs, last.dst)

(* C10: when the validation of a commit fails, neither the filesystem nor the
   ledger is changed and the commit ends there. *)
C10_InvalidCommitChangesNothing ==
    (last.op = "commit" /\ ~validate_paths(last.pre.fs, last.src, last.dst)) =>
        /\ last.result = "invalid"
        /\ fs = last.pre.fs
        /\ historyFile = last.pre.hist
        /\ windows = last.pre.windows
        /\ last.rec = NoRecord

C10_Witness ==
    /\ last.op = "commit" /\ last.result = "invalid"
    /\ exists(fs, last.src) /\ last.dst # EmptyStr /\ ~lexists(fs, last.dst)
    /\ Ledger # <<>>

Paths == (DOMAIN fs \cup SrcInputs \cup DstInputs) \ {EmptyStr}

(* C11: removeLink(path) succeeds without changing anything when path does
   not exist, fails removing nothing when path exists and is not a symbolic
   link, and otherwise removes only the link entry at path, leaving the
   link's target and its contents in place. *)
C11_RemoveLinkCases ==
    \A p \in Paths :
        LET rm == remove_symlink(fs, p)
        IN  /\ ~lexists(fs, p) => (rm.ok /\ rm.fs = fs)
            /\ (lexists(fs, p) /\ ~islink(fs, p)) => (~rm.ok /\ rm.fs = fs)
            /\ islink(fs, p) =>
                  /\ rm.ok
                  /\ DOMAIN rm.fs = DOMAIN fs \ {LReal(fs, p)}
                  /\ \A q \in DOMAIN rm.fs : rm.fs[q] = fs[q]

(* C15: removeLink is idempotent on success: removeLink(p) on a p that does
   not exist succeeds, and after any successful removeLink(p) a second
   removeLink(p) succeeds and changes nothing. *)
C15_RemoveLinkIdempotent ==
    /\ NewFs =>
          \A p \in Paths :
             LET rm == remove_symlink(fs, p)
             IN  /\ ~lexists(fs, p) => rm.ok
                 /\ rm.ok => remove_symlink(rm.fs, p) = Outcome(TRUE, rm.fs)
    /\ (last.op = "revert" /\ last.result \in {"moveBackFail", "ok"}) =>
          remove_symlink(last.pre.fs, last.rec.symlink_path).ok

C15_Witness ==
    /\ last.op = "revert" /\ last.result = "moveBackFail"
    /\ islink(last.pre.fs, last.rec.symlink_path)
    /\ exists(last.pre.fs, last.rec.symlink_path)
    /\ ~lexists(fs, last.rec.symlink_path)
    /\ remove_symlink(fs, last.rec.symlink_path) = Outcome(TRUE, fs)

(* C12: for any sequence of records, load() after save(records) returns the
   same records, field for field and in the same order; when the ledger
   store is absent or unparsable, load() returns the empty sequence. *)
C12_LoadAfterSave ==
    /\ \A records \in {Ledger, <<>>} \cup {windows[i].history : i \in 1..Len(windows)} :
          load_history(save_history(records)) = records
    /\ historyFile.state \in {"absent", "corrupt"} => load_history(historyFile) = <<>>
    /\ Committed => Ledger = Append(load_history(last.pre.hist), last.rec)

C12_Witness ==
    /\ Committed
    /\ Len(Ledger) = 2 /\ Ledger[1] # Ledger[2]
    /\ \E i \in 1..Len(windows) : windows[i].history = <<>>

Recreated ==
    /\ last.op = "commit" /\ platform = "Windows"
    /\ last.io = "recreate" /\ Len(last.steps) >= 3

(* C13: when the src path is re-created externally after the move of a commit
   and before its link creation, the commit fails with the link-exists error;
   the item is at dstFolder/basename(src), the external occupant of src is
   untouched, no link was created and no record was appended. *)
C13_RecreatedSrcFailsCommit ==
    Recreated =>
        /\ last.result = "linkFail" /\ last.err = "FileExistsError"
        /\ NodeAt(fs, join(last.dst, basename(last.src)))
              = NodeAt(last.pre.fs, last.src)
        /\ NodeAt(fs, last.src) = Node("file", "ext", <<>>)
        /\ historyFile = last.pre.hist

(* C14: every record of the persisted ledger has symlink_path equal to
   original_src, in every state reachable by commits and reverts. *)
C14_KeyIsOriginalSrc ==
    /\ \A k \in 1..Len(Ledger) : Ledger[k].symlink_path = Ledger[k].original_src
    /\ Committed => last.rec.symlink_path = last.src /\ last.rec.original_src = last.src

C14_Witness ==
    /\ Reverted
    /\ Len(Ledger) >= 1
    /\ Len(load_history(last.pre.hist)) = 2

CommitOrder == <<"validate", "move", "link", "append">>

RevertOrder == <<"unlink", "moveBack", "remove">>

StepsOf(order, results) ==
    /\ Len(last.steps) \in 1..Len(order)
    /\ last.steps = SubSeq(order, 1, Len(last.steps))
    /\ last.result = results[Len(last.steps)]

(* C16: a commit performs validate, move, create link, ledger append in this
   order and a revert remove link, move back, ledger removal; each step
   starts only after the previous one succeeded, so the ledger is appended to
   only after the link exists and a record is removed only after the item is
   back at original_src. *)
C16_StepsInOrder ==
    /\ last.op = "commit" =>
          /\ StepsOf(CommitOrder, <<"invalid", "moveFail", "linkFail", "ok">>)
          /\ Len(last.steps) >= 2 => validate_paths(last.pre.fs, last.src, last.dst)
          /\ historyFile # last.pre.hist =>
                (last.steps = CommitOrder /\ islink(fs, last.src))
    /\ (last.op = "revert" /\ last.result # "noSelection") =>
          /\ StepsOf(RevertOrder, <<"unlinkFail", "moveBackFail", "ok">>)
          /\ Len(last.steps) >= 2 =>
                remove_symlink(last.pre.fs, last.rec.symlink_path).ok
          /\ (Reverted \/ historyFile # last.pre.hist) =>
                /\ last.steps = RevertOrder
                /\ ~islink(fs, last.rec.original_src)
                /\ NodeAt(fs, last.rec.original_src)
                      = NodeAt(last.pre.fs, last.rec.final_dst)

(* C17: createLink checks platform support before checking whether linkPath
   exists: on an unsupported host it fails with the unsupported-platform
   error whether or not linkPath is occupied, it fails with the link-exists
   error only on a supported host whose linkPath exists, and in both failures
   nothing is created at linkPath. *)
C17_PlatformCheckedFirst ==
    /\ NewFs =>
          \A src \in Paths, system \in Systems :
             LET ln == create_symlink(fs, src, join(<<"D">>, basename(src)),
                                      system, FALSE)
             IN  /\ system # "Windows" =>
                       (~ln.ok /\ ln.err = "NotImplementedError" /\ ln.fs = fs)
                 /\ ln.err = "FileExistsError" =>
                       (~ln.ok /\ system = "Windows" /\ exists(fs, src)
                        /\ ln.fs = fs)
    /\ (last.op = "commit" /\ Len(last.steps) >= 3) =>
          /\ platform # "Windows" =>
                (last.result = "linkFail" /\ last.err = "NotImplementedError"
                 /\ ~islink(fs, last.src))
          /\ last.err = "FileExistsError" =>
                (last.result = "linkFail" /\ platform = "Windows"
                 /\ exists(fs, last.src) /\ historyFile = last.pre.hist)

C17_Witness ==
    /\ last.op = "commit" /\ platform = "Linux"
    /\ last.io = "recreate" /\ last.err = "NotImplementedError"
    /\ exists(fs, last.src)

(* C18: the kind of link a commit creates is determined by the type of the
   moved item: committing a directory creates a directory-type link at src
   and committing a single file creates a file-type link at src. *)
C18_LinkKindFollowsItem ==
    Committed =>
        NodeAt(fs, last.src).kind
            = IF isdir(last.pre.fs, last.src) THEN "dirlink" ELSE "filelink"

WithKey(history, symlink_path) ==
    {k \in 1..Len(history) : history[k].symlink_path = symlink_path}

(* C19: after any sequence of commits and reverts no two records of the
   persisted ledger have the same symlink_path, so a revert removes exactly
   one record; a second commit of a path that is already a managed symbolic
   link does not add a second record with that symlink_path. *)
C19_OneRecordPerLink ==
    /\ \A k \in 1..Len(Ledger) :
          Cardinality(WithKey(Ledger, Ledger[k].symlink_path)) = 1
    /\ Reverted =>
          Cardinality(WithKey(load_history(last.pre.hist),
                              last.rec.symlink_path)) <= 1

(* C20: a commit never destroys or alters an entry that exists at
   dstFolder/basename(src) before the commit: it fails with the entry
   untouched or succeeds with the entry still present and unchanged; and the
   new location returned by the mover and stored as final_dst is the path
   where the moved item resides. *)
C20_CommitKeepsDestinationEntry ==
    (last.op = "commit" /\ last.result # "invalid") =>
        LET loc == join(last.dst, basename(last.src))
            old == LReal(last.pre.fs, loc)
        IN  /\ (lexists(last.pre.fs, loc) /\ old # LReal(last.pre.fs, last.src)) =>
                  \A p \in Under(last.pre.fs, old) :
                      p \in DOMAIN fs /\ fs[p] = last.pre.fs[p]
            /\ Committed =>
                  /\ last.rec.final_dst = loc
                  /\ NodeAt(fs, loc) = NodeAt(last.pre.fs, last.src)

=============================================================================
